---- MODULE Spec2Model ----
(***************************************************************************)
(* Model of controllers/api/pwa.js: the GET /api/pwa/:id? handler, its     *)
(* three writers (CSV, JSON, RSS) and the promise chain that connects the  *)
(* store call, the format switch and the error handlers.                   *)
(*                                                                         *)
(* One request is one promise chain.  Every action below is one callback   *)
(* of that chain (the route handler, a then/catch callback, the            *)
(* continuation of an await), so requests interleave exactly at the        *)
(* points where the event loop can switch between them.                    *)
(***************************************************************************)
EXTENDS Integers, Sequences, FiniteSets, TLC

\* ---------------------------------------------------------------- bounds
\* Longest listing the store returns.
MaxLen == 2

\* Requests in flight at once.
Req == {"r1", "r2"}

\* ------------------------------------------------------- time and getDate
MsPerDay == 86400000

\* A Date's time value: a number of milliseconds since the epoch, or NaN.
TV(ms) == [nan |-> FALSE, ms |-> ms]
NaN == [nan |-> TRUE, ms |-> 0]

\* new Date(date): a Date holding the same time value.
NewDate(date) == date

\* Day number (days since 1970-01-01) to the civil date <<year, month, day>>,
\* in UTC, as Date.prototype.toISOString computes its date part.
CivilFromDays(days) ==
    LET z   == days + 719468
        era == z \div 146097
        doe == z - era * 146097
        yoe == (doe - doe \div 1460 + doe \div 36524 - doe \div 146096) \div 365
        doy == doe - (365 * yoe + yoe \div 4 - yoe \div 100)
        mp  == (5 * doy + 2) \div 153
        d   == doy - (153 * mp + 2) \div 5 + 1
        m   == IF mp < 10 THEN mp + 3 ELSE mp - 9
        y   == yoe + era * 400 + (IF m <= 2 THEN 1 ELSE 0)
    IN  <<y, m, d>>

\* ToISOString with the fields of local time, one hour ahead of UTC.
ToISOStringLocal(date) ==
    IF date.nan
    THEN [threw |-> TRUE, parts |-> <<>>]
    ELSE [threw |-> FALSE,
          parts |-> << CivilFromDays((date.ms + 3600000) \div MsPerDay),
                       (date.ms + 3600000) % MsPerDay >>]

\* toISOString(): throws RangeError on an invalid Date, otherwise the string
\* "YYYY-MM-DD" "T" "hh:mm:ss.sssZ", kept here as its two parts around the T:
\* the civil date and the milliseconds into that day.
ToISOString(date) ==
    IF date.nan
    THEN [threw |-> TRUE, parts |-> <<>>]
    ELSE [threw |-> FALSE,
          parts |-> << CivilFromDays(date.ms \div MsPerDay),
                       date.ms % MsPerDay >>]

\* getDate(date) = new Date(date).toISOString().split('T')[0]
getDate(date) ==
    LET iso == ToISOString(NewDate(date))
    IN  IF iso.threw
        THEN [threw |-> TRUE, value |-> <<>>]
        ELSE [threw |-> FALSE, value |-> iso.parts[1]]

\* ------------------------------------------------------------ the records
\* The records the store holds.  Ids are unique.  "a" and "b" carry a time of
\* day, "b" was created one millisecond before the epoch and updated at a
\* midnight, "c" was stored without an updated timestamp.
PwaA ==
    [id |-> "a", name |-> "foo", displayName |-> "Foo", description |-> "first",
     absoluteStartUrl |-> "https://a.example/", manifestUrl |-> "https://a.example/m.json",
     iconUrl128 |-> "https://a.example/i.png",
     lighthouseScore |-> 90, webPageTest |-> "wpt-a", pageSpeed |-> "ps-a",
     created |-> TV(MsPerDay + 36000000), updated |-> TV(4 * MsPerDay + 1)]
PwaB ==
    [id |-> "b", name |-> "bar", displayName |-> "Bar", description |-> "second",
     absoluteStartUrl |-> "https://b.example/", manifestUrl |-> "https://b.example/m.json",
     iconUrl128 |-> "https://b.example/i.png",
     lighthouseScore |-> 55, webPageTest |-> "wpt-b", pageSpeed |-> "ps-b",
     created |-> TV(0 - 1), updated |-> TV(4 * MsPerDay)]
PwaC ==
    [id |-> "c", name |-> "baz", displayName |-> "Baz", description |-> "third",
     absoluteStartUrl |-> "https://c.example/", manifestUrl |-> "https://c.example/m.json",
     iconUrl128 |-> "https://c.example/i.png",
     lighthouseScore |-> 10, webPageTest |-> "wpt-c", pageSpeed |-> "ps-c",
     created |-> TV(MsPerDay + 36000001), updated |-> NaN]

Store == {PwaA, PwaB, PwaC}

Ids == {pwa.id : pwa \in Store}

Range(q) == {q[i] : i \in 1..Len(q)}

\* The sequences of at most n distinct elements of S.
SeqsUpTo(S, n) ==
    {q \in UNION {[1..k -> S] : k \in 0..n} : Cardinality(Range(q)) = Len(q)}

\* What pwaLib.list may resolve with: any page of the stored records.
Listings == SeqsUpTo(Store, MaxLen)

\* ---------------------------------------------------------------- writers
\* What a call of a writer did: whether it threw, whether it wrote the
\* response before returning or throwing, and what it wrote.
NoWrite(threw) == [threw |-> threw, wrote |-> FALSE, contentType |-> "", body |-> <<>>]

CsvHeader ==
    <<"id", "absoluteStartUrl", "manifestUrl", "lighthouseScore", "created", "updated">>

\* The body of the forEach callback of CsvWriter.write for one record.
CsvLine(pwa) ==
    LET created == getDate(pwa.created)
        updated == getDate(pwa.updated)
    IN  [threw |-> created.threw \/ updated.threw,
         line  |-> <<pwa.id, pwa.absoluteStartUrl, pwa.manifestUrl,
                     pwa.lighthouseScore, created.value, updated.value>>]

RECURSIVE CsvForEachUnshift(_, _, _)
\* CsvForEach with each line put in front of the lines pushed so far.
CsvForEachUnshift(pwas, i, csv) ==
    IF i > Len(pwas)
    THEN [threw |-> FALSE, csv |-> csv]
    ELSE IF CsvLine(pwas[i]).threw
         THEN [threw |-> TRUE, csv |-> csv]
         ELSE CsvForEachUnshift(pwas, i + 1, <<CsvLine(pwas[i]).line>> \o csv)

RECURSIVE CsvForEach(_, _, _)
\* pwas.forEach(...) of CsvWriter.write from record i on, csv being the lines
\* pushed so far; an exception of the callback ends the loop.
CsvForEach(pwas, i, csv) ==
    IF i > Len(pwas)
    THEN [threw |-> FALSE, csv |-> csv]
    ELSE IF CsvLine(pwas[i]).threw
         THEN [threw |-> TRUE, csv |-> csv]
         ELSE CsvForEach(pwas, i + 1, Append(csv, CsvLine(pwas[i]).line))

\* CsvWrite that sends the header and each line as it goes: the lines before
\* the record that throws are already out when the exception leaves write().
CsvWriteStreaming(pwas) ==
    LET loop == CsvForEach(pwas, 1, <<>>)
    IN  [threw |-> loop.threw, wrote |-> TRUE, contentType |-> "text/csv",
         body |-> <<CsvHeader>> \o loop.csv]

RECURSIVE CsvForEachSkipping(_, _, _)
\* CsvForEach with the exception of a record caught and the record left out.
CsvForEachSkipping(pwas, i, csv) ==
    IF i > Len(pwas)
    THEN csv
    ELSE CsvForEachSkipping(pwas, i + 1,
            IF CsvLine(pwas[i]).threw THEN csv ELSE Append(csv, CsvLine(pwas[i]).line))

\* CsvWrite that never throws: records it cannot project are skipped.
CsvWriteSkipping(pwas) ==
    [threw |-> FALSE, wrote |-> TRUE, contentType |-> "text/csv",
     body |-> <<CsvHeader>> \o CsvForEachSkipping(pwas, 1, <<>>)]

\* CsvWriter.write(result, pwas)
CsvWrite(pwas) ==
    LET loop == CsvForEach(pwas, 1, <<>>)
    IN  IF loop.threw
        THEN NoWrite(TRUE)
        ELSE [threw |-> FALSE, wrote |-> TRUE, contentType |-> "text/csv",
              body |-> <<CsvHeader>> \o loop.csv]

\* The body of the forEach callback of JsonWriter.write for one record.
JsonObject(dbPwa) ==
    LET created == getDate(dbPwa.created)
        updated == getDate(dbPwa.updated)
    IN  [threw |-> created.threw \/ updated.threw,
         pwa   |-> [id |-> dbPwa.id,
                    absoluteStartUrl |-> dbPwa.absoluteStartUrl,
                    manifestUrl |-> dbPwa.manifestUrl,
                    lighthouseScore |-> dbPwa.lighthouseScore,
                    webPageTest |-> dbPwa.webPageTest,
                    pageSpeed |-> dbPwa.pageSpeed,
                    created |-> created.value,
                    updated |-> updated.value]]

RECURSIVE JsonForEach(_, _, _)
\* pwas.forEach(...) of JsonWriter.write from record i on.
JsonForEach(pwas, i, pwaList) ==
    IF i > Len(pwas)
    THEN [threw |-> FALSE, pwaList |-> pwaList]
    ELSE IF JsonObject(pwas[i]).threw
         THEN [threw |-> TRUE, pwaList |-> pwaList]
         ELSE JsonForEach(pwas, i + 1, Append(pwaList, JsonObject(pwas[i]).pwa))

\* JsonWriter.write(result, pwas)
JsonWrite(pwas) ==
    LET loop == JsonForEach(pwas, 1, <<>>)
    IN  IF loop.threw
        THEN NoWrite(TRUE)
        ELSE [threw |-> FALSE, wrote |-> TRUE, contentType |-> "application/json",
              body |-> loop.pwaList]

\* The fragments the template engine may call back with.  The context it
\* renders (renderOnePwaRss) holds the record and also req.originalUrl and
\* req.query.contentOnly, so the fragment belongs to the request, not to the
\* record alone.
Htmls == {"<p>x</p>", "<p>y</p>"}

\* The argument of feed.item(...) for one record and its rendered fragment.
FeedItem(pwa, html) ==
    [title       |-> pwa.displayName,
     url         |-> <<"https://pwa-directory.appspot.com/pwas/", pwa.id>>,
     description |-> html,
     guid        |-> pwa.id,
     date        |-> pwa.created,
     thumbnail   |-> [url |-> pwa.iconUrl128, height |-> "128", width |-> "128"],
     link        |-> [rel |-> "http://purl.org/rss/1.0/modules/link/#alternate",
                      type |-> "application/json",
                      resource |-> <<"https://pwa-directory.appspot.com/api/pwa/", pwa.id>>]]

\* new RSS({...}) followed by feed.xml(): the channel and its items.
FeedXml(items) ==
    [title      |-> "PWA Directory",
     feed_url   |-> "https://pwa-directory.appspot.com/api/pwa?format=rss",
     namespaces |-> {"rdf", "l", "media"},
     items      |-> items]

\* asyncForEach without the await: every remaining callback is called at once.
asyncForEachAll(n, started, inflight) == (started + 1)..n

\* asyncForEach: the indices whose callback the loop calls now, n being
\* array.length, started the number of callbacks called so far and inflight
\* the callbacks awaited.  The loop awaits each callback before the next.
asyncForEach(n, started, inflight) ==
    IF inflight = {} /\ started < n THEN {started + 1} ELSE {}

\* ------------------------------------------------------------ the request
Absent == "undefined"

\* req.query.format
FormatParams == {Absent, "", "json", "csv", "rss", "xml", "CSV"}

\* req.params.id
IdParams == {Absent} \cup Ids \cup {"zz"}

Truthy(param) == param \notin {Absent, ""}

\* let format = req.query.format || 'json'
Format(param) == IF Truthy(param) THEN param ELSE "json"

\* SwitchFormat with the case labels compared without regard to case.
SwitchFormatIgnoreCase(format) ==
    CASE format \in {"csv", "CSV"} -> "csvWriter"
      [] format \in {"rss", "RSS"} -> "rssWriter"
      [] OTHER -> "jsonWriter"

\* switch (format): the writer of the case taken.
SwitchFormat(format) ==
    CASE format = "csv" -> "csvWriter"
      [] format = "rss" -> "rssWriter"
      [] OTHER -> "jsonWriter"

\* A query parameter that is parsed as a number: absent, or the characters
\* of its value.
NoParam == [present |-> FALSE, chars |-> <<>>]
Param(chars) == [present |-> TRUE, chars |-> chars]

\* String(value): an absent parameter is undefined, which reads "undefined".
StringOf(param) ==
    IF param.present
    THEN param.chars
    ELSE <<"u", "n", "d", "e", "f", "i", "n", "e", "d">>

\* A JavaScript number: an integer, or NaN.
Num(n) == [nan |-> FALSE, n |-> n]
NotANumber == [nan |-> TRUE, n |-> 0]

DigitValue(ch) ==
    CASE ch = "0" -> 0 [] ch = "1" -> 1 [] ch = "2" -> 2 [] ch = "3" -> 3
      [] ch = "4" -> 4 [] ch = "5" -> 5 [] ch = "6" -> 6 [] ch = "7" -> 7
      [] ch = "8" -> 8 [] ch = "9" -> 9 [] OTHER -> 0 - 1

RECURSIVE SkipWhiteSpace(_)
\* The string without its leading white space.
SkipWhiteSpace(str) ==
    IF str # <<>> /\ Head(str) = " " THEN SkipWhiteSpace(Tail(str)) ELSE str

RECURSIVE ParseDigits(_, _, _)
\* The longest prefix of decimal digits of str, read as a number on top of
\* acc; seen tells whether a digit was read.
ParseDigits(str, acc, seen) ==
    IF str # <<>> /\ DigitValue(Head(str)) >= 0
    THEN ParseDigits(Tail(str), 10 * acc + DigitValue(Head(str)), TRUE)
    ELSE [seen |-> seen, value |-> acc]

\* parseInt(value, 10)
parseInt(param) ==
    LET str      == SkipWhiteSpace(StringOf(param))
        negative == str # <<>> /\ Head(str) = "-"
        signed   == str # <<>> /\ Head(str) \in {"-", "+"}
        digits   == ParseDigits(IF signed THEN Tail(str) ELSE str, 0, FALSE)
    IN  IF ~digits.seen
        THEN NotANumber
        ELSE Num(IF negative THEN 0 - digits.value ELSE digits.value)

\* A number is falsy when it is NaN or zero.
TruthyNumber(number) == ~number.nan /\ number.n # 0

DEFAULT_LIMIT == 100

\* ListArgs with skip defaulting to 0 the way limit defaults to 100.
ListArgsSkipZero(sort, skip, limit) ==
    [skip  |-> IF TruthyNumber(parseInt(skip)) THEN parseInt(skip) ELSE Num(0),
     limit |-> IF TruthyNumber(parseInt(limit)) THEN parseInt(limit) ELSE Num(DEFAULT_LIMIT),
     sort  |-> IF Truthy(sort) THEN sort ELSE "newest"]

\* The arguments of pwaLib.list(skip, limit, sort), from lines 159-161.
ListArgs(sort, skip, limit) ==
    [skip  |-> parseInt(skip),
     limit |-> IF TruthyNumber(parseInt(limit)) THEN parseInt(limit) ELSE Num(DEFAULT_LIMIT),
     sort  |-> IF Truthy(sort) THEN sort ELSE "newest"]

\* req.query.sort
SortParams == {Absent, "", "score"}

\* req.query.skip and req.query.limit
NumberParams ==
    {NoParam, Param(<<>>), Param(<<"a", "b", "c">>), Param(<<"0">>), Param(<<"7">>),
     Param(<<"2", "5">>), Param(<<"1", "2", "p", "x">>), Param(<<"-", "3">>),
     Param(<<" ", "4">>)}

\* The sort, skip and limit parameters of the requests that are followed to
\* their response: the answer of the store does not depend on them here, so
\* one combination stands for all.  NextParams runs the handler on every
\* combination.
ListQueries ==
    {[sort |-> "score", skip |-> Param(<<"2", "5">>), limit |-> NoParam]}

\* A call of the store or of the template engine.
StoreCall(fn, arg) == [fn |-> fn, arg |-> arg]

RECURSIVE RenderCalls(_)
\* The calls of res.render for the records with the given indices, in order.
RenderCalls(indices) ==
    IF indices = {}
    THEN <<>>
    ELSE LET i == CHOOSE j \in indices : \A k \in indices : j <= k
         IN  <<StoreCall("render", i)>> \o RenderCalls(indices \ {i})

CACHE_CONTROL_EXPIRES == 60 * 60 * 1

\* CacheControl with the lifetime given in milliseconds.
CacheControlMillis == <<"public, max-age=", CACHE_CONTROL_EXPIRES * 1000>>

\* res.setHeader('Cache-Control', 'public, max-age=' + CACHE_CONTROL_EXPIRES)
CacheControl == <<"public, max-age=", CACHE_CONTROL_EXPIRES>>

\* The promise render() returns, from the arguments express calls the
\* callback with: reject(err) settles it first when err is set, and the
\* resolve(html) that follows is then without effect.
render(err, html) ==
    IF err # "null"
    THEN [state |-> "rejected", value |-> err]
    ELSE [state |-> "resolved", value |-> html]

\* The errors the store and the template engine fail with.
StoreErrors == {"not found", "datastore unavailable"}
RenderErrors == {"template error"}

\* ------------------------------------------------------------------ state
VARIABLES
    pc,        \* per request: the callback of its promise chain that runs next
    query,     \* per request: req.params.id and req.query.format
    result,    \* per request: result.pwas, the records handed to the writer
    res,       \* per request: the response: headers, status code, writes
    err,       \* per request: the reason of the rejection being propagated
    invoked,   \* per request: the writers whose write() was called, in order
    feed,      \* per request: the items of the RSS feed, in feed.item order
    started,   \* per request: how many renders asyncForEach has started
    inflight,  \* per request: the indices of the renders not yet called back
    calls      \* per request: the calls made to the store and to res.render

vars == <<pc, query, result, res, err, invoked, feed, started, inflight, calls>>

\* A response as express hands it to the handler: no header, status 200,
\* nothing written.
FreshResponse ==
    [cacheControl |-> <<>>, contentType |-> "", statusCode |-> 200, writes |-> <<>>]

Init ==
    /\ pc = [r \in Req |-> "idle"]
    /\ query = [r \in Req |-> [id |-> Absent, format |-> Absent, sort |-> Absent,
                               skip |-> NoParam, limit |-> NoParam]]
    /\ result = [r \in Req |-> <<>>]
    /\ res = [r \in Req |-> FreshResponse]
    /\ err = [r \in Req |-> "null"]
    /\ invoked = [r \in Req |-> <<>>]
    /\ feed = [r \in Req |-> <<>>]
    /\ started = [r \in Req |-> 0]
    /\ inflight = [r \in Req |-> {}]
    /\ calls = [r \in Req |-> <<>>]

\* res.status(code)
Status(response, code) == [response EXCEPT !.statusCode = code]

\* res.json(body), res.csv(body), res.send(body): one write of the response,
\* with the status code set at that moment.
Write(response, by, body) ==
    [response EXCEPT
        !.writes = Append(@, [status |-> response.statusCode, by |-> by, body |-> body])]

\* The route handler up to the store call (lines 157-166 and 176).  sort, skip
\* and limit are parsed in either mode and handed to pwaLib.list alone, whose
\* answer ListResolve and ListReject choose freely.
Receive(r, id, format, sort, skip, limit) ==
    /\ pc[r] = "idle"
    /\ query' = [query EXCEPT ![r] = [id |-> id, format |-> format, sort |-> sort,
                                      skip |-> skip, limit |-> limit]]
    /\ res' = [res EXCEPT ![r].cacheControl = CacheControl]
    /\ pc' = [pc EXCEPT ![r] = IF Truthy(id) THEN "find" ELSE "list"]
    /\ calls' = [calls EXCEPT ![r] =
                   Append(@, IF Truthy(id)
                             THEN StoreCall("find", id)
                             ELSE StoreCall("list", ListArgs(sort, skip, limit)))]
    /\ UNCHANGED <<result, err, invoked, feed, started, inflight>>

\* FindResolve with the record resolved together with another stored record.
FindResolveWithNeighbour(r) ==
    /\ pc[r] = "find"
    /\ \E onePwa \in Store, other \in Store :
          /\ onePwa.id = query[r].id
          /\ other.id # onePwa.id
          /\ result' = [result EXCEPT ![r] = <<onePwa, other>>]
    /\ pc' = [pc EXCEPT ![r] = "then"]
    /\ UNCHANGED <<query, res, err, invoked, feed, started, inflight, calls>>

\* pwaLib.find(id) resolves: the then callback of line 167 resolves the outer
\* promise with a one-element list.
FindResolve(r) ==
    /\ pc[r] = "find"
    /\ \E onePwa \in Store :
          /\ onePwa.id = query[r].id
          /\ result' = [result EXCEPT ![r] = <<onePwa>>]
    /\ pc' = [pc EXCEPT ![r] = "then"]
    /\ UNCHANGED <<query, res, err, invoked, feed, started, inflight, calls>>

\* FindReject that looks the record up once more instead of answering.
FindRejectRetry(r, e) ==
    /\ pc[r] = "find"
    /\ (query[r].id \in Ids) => e # "not found"
    /\ Len(calls[r]) < 2
    /\ err' = [err EXCEPT ![r] = e]
    /\ calls' = [calls EXCEPT ![r] = Append(@, StoreCall("find", query[r].id))]
    /\ UNCHANGED <<pc, query, result, res, invoked, feed, started, inflight>>

\* FindReject with the rejection passed on to the outer promise after the 404.
FindRejectAndPropagate(r, e) ==
    /\ pc[r] = "find"
    /\ (query[r].id \in Ids) => e # "not found"
    /\ err' = [err EXCEPT ![r] = e]
    /\ res' = [res EXCEPT ![r] = Write(Status(@, 404), "lookupCatch", e)]
    /\ pc' = [pc EXCEPT ![r] = "catch"]
    /\ UNCHANGED <<query, result, invoked, feed, started, inflight, calls>>

\* pwaLib.find(id) rejects: the catch callback of lines 170-174 answers 404.
\* The outer promise is never settled, so no later callback runs.
FindReject(r, e) ==
    /\ pc[r] = "find"
    /\ (query[r].id \in Ids) => e # "not found"
    /\ err' = [err EXCEPT ![r] = e]
    /\ res' = [res EXCEPT ![r] = Write(Status(@, 404), "lookupCatch", e)]
    /\ pc' = [pc EXCEPT ![r] = "done"]
    /\ UNCHANGED <<query, result, invoked, feed, started, inflight, calls>>

\* pwaLib.list(skip, limit, sort) resolves.
ListResolve(r, pwas) ==
    /\ pc[r] = "list"
    /\ result' = [result EXCEPT ![r] = pwas]
    /\ pc' = [pc EXCEPT ![r] = "then"]
    /\ UNCHANGED <<query, res, err, invoked, feed, started, inflight, calls>>

\* pwaLib.list(skip, limit, sort) rejects: the outer promise rejects with it.
ListReject(r, e) ==
    /\ pc[r] = "list"
    /\ err' = [err EXCEPT ![r] = e]
    /\ pc' = [pc EXCEPT ![r] = "catch"]
    /\ UNCHANGED <<query, result, res, invoked, feed, started, inflight, calls>>

\* A case of the switch that calls a synchronous writer: what the writer
\* wrote is written, and an exception of the writer rejects the chain.
SyncCase(r, writer, out) ==
    /\ invoked' = [invoked EXCEPT ![r] = Append(@, writer)]
    /\ res' = [res EXCEPT ![r] =
                 IF out.wrote
                 THEN Write([@ EXCEPT !.contentType = out.contentType], writer, out.body)
                 ELSE @]
    /\ err' = [err EXCEPT ![r] = IF out.threw THEN "RangeError: Invalid time value" ELSE @]
    /\ pc' = [pc EXCEPT ![r] = IF out.threw THEN "catch" ELSE "done"]
    /\ UNCHANGED <<query, result, feed, started, inflight, calls>>

\* The then callback of lines 179-193, case 'csv'.
ThenCsv(r) ==
    /\ pc[r] = "then"
    /\ SwitchFormat(Format(query[r].format)) = "csvWriter"
    /\ SyncCase(r, "csvWriter", CsvWrite(result[r]))

\* The then callback of lines 179-193, default case.
ThenJson(r) ==
    /\ pc[r] = "then"
    /\ SwitchFormat(Format(query[r].format)) = "jsonWriter"
    /\ SyncCase(r, "jsonWriter", JsonWrite(result[r]))

\* ThenRss with the feed sent by write() itself, before the renders it started
\* have called back.
ThenRssSendFirst(r) ==
    /\ pc[r] = "then"
    /\ SwitchFormat(Format(query[r].format)) = "rssWriter"
    /\ invoked' = [invoked EXCEPT ![r] = Append(@, "rssWriter")]
    /\ feed' = [feed EXCEPT ![r] = <<>>]
    /\ res' = [res EXCEPT ![r] =
                 Write(Status([@ EXCEPT !.contentType = "application/rss+xml"], 200),
                       "rssWriter", FeedXml(<<>>))]
    /\ LET first == asyncForEach(Len(result[r]), 0, {})
       IN  /\ inflight' = [inflight EXCEPT ![r] = first]
           /\ started' = [started EXCEPT ![r] = Cardinality(first)]
           /\ pc' = [pc EXCEPT ![r] = IF first = {} THEN "done" ELSE "rss"]
           /\ calls' = [calls EXCEPT ![r] = @ \o RenderCalls(first)]
    /\ UNCHANGED <<query, result, err>>

\* The then callback of lines 179-193, case 'rss': RssWriter.write creates the
\* feed and calls start(), which runs up to its first await; write() returns
\* without the promise of start(), and the then callback returns normally.
ThenRss(r) ==
    /\ pc[r] = "then"
    /\ SwitchFormat(Format(query[r].format)) = "rssWriter"
    /\ invoked' = [invoked EXCEPT ![r] = Append(@, "rssWriter")]
    /\ feed' = [feed EXCEPT ![r] = <<>>]
    /\ LET first == asyncForEach(Len(result[r]), 0, {})
       IN  /\ inflight' = [inflight EXCEPT ![r] = first]
           /\ started' = [started EXCEPT ![r] = Cardinality(first)]
           /\ pc' = [pc EXCEPT ![r] = IF first = {} THEN "send" ELSE "rss"]
           /\ calls' = [calls EXCEPT ![r] = @ \o RenderCalls(first)]
    /\ UNCHANGED <<query, result, res, err>>

\* RenderCallback with one feed object, created with the writer, that every
\* request appends to.
RenderCallbackSharedFeed(r, i, e, html) ==
    /\ pc[r] = "rss"
    /\ i \in inflight[r]
    /\ LET p    == render(e, html)
           left == inflight[r] \ {i}
           next == asyncForEach(Len(result[r]), started[r], left)
       IN  IF p.state = "rejected"
           THEN /\ pc' = [pc EXCEPT ![r] = "unhandledRejection"]
                /\ err' = [err EXCEPT ![r] = p.value]
                /\ inflight' = [inflight EXCEPT ![r] = left]
                /\ UNCHANGED <<feed, started, calls>>
           ELSE /\ feed' = [q \in Req |-> Append(feed[q], FeedItem(result[r][i], p.value))]
                /\ inflight' = [inflight EXCEPT ![r] = left \cup next]
                /\ started' = [started EXCEPT ![r] = @ + Cardinality(next)]
                /\ pc' = [pc EXCEPT ![r] = IF left \cup next = {} THEN "send" ELSE "rss"]
                /\ calls' = [calls EXCEPT ![r] = @ \o RenderCalls(next)]
                /\ UNCHANGED err
    /\ UNCHANGED <<query, result, res, invoked>>

\* express calls back the render of record i.  On success the callback of
\* lines 123-139 appends the item and asyncForEach goes on; on failure the
\* promise of start() rejects, and nothing is attached to that promise.
RenderCallback(r, i, e, html) ==
    /\ pc[r] = "rss"
    /\ i \in inflight[r]
    /\ LET p    == render(e, html)
           left == inflight[r] \ {i}
           next == asyncForEach(Len(result[r]), started[r], left)
       IN  IF p.state = "rejected"
           THEN /\ pc' = [pc EXCEPT ![r] = "unhandledRejection"]
                /\ err' = [err EXCEPT ![r] = p.value]
                /\ inflight' = [inflight EXCEPT ![r] = left]
                /\ UNCHANGED <<feed, started, calls>>
           ELSE /\ feed' = [feed EXCEPT ![r] = Append(@, FeedItem(result[r][i], p.value))]
                /\ inflight' = [inflight EXCEPT ![r] = left \cup next]
                /\ started' = [started EXCEPT ![r] = @ + Cardinality(next)]
                /\ pc' = [pc EXCEPT ![r] = IF left \cup next = {} THEN "send" ELSE "rss"]
                /\ calls' = [calls EXCEPT ![r] = @ \o RenderCalls(next)]
                /\ UNCHANGED err
    /\ UNCHANGED <<query, result, res, invoked>>

\* RssSend that also fires on a timer while a render is still awaited, sending
\* the items appended so far.
RssSendOnTimeout(r) ==
    /\ pc[r] \in {"rss", "send"}
    /\ res' = [res EXCEPT ![r] =
                 Write(Status([@ EXCEPT !.contentType = "application/rss+xml"], 200),
                       "rssWriter", FeedXml(feed[r]))]
    /\ pc' = [pc EXCEPT ![r] = IF pc[r] = "send" THEN "done" ELSE "rss"]
    /\ UNCHANGED <<query, result, err, invoked, feed, started, inflight, calls>>

\* The continuation of start() after the loop (lines 140-141).
RssSend(r) ==
    /\ pc[r] = "send"
    /\ res' = [res EXCEPT ![r] =
                 Write(Status([@ EXCEPT !.contentType = "application/rss+xml"], 200),
                       "rssWriter", FeedXml(feed[r]))]
    /\ pc' = [pc EXCEPT ![r] = "done"]
    /\ UNCHANGED <<query, result, err, invoked, feed, started, inflight, calls>>

\* FinalCatch with the cache header taken off the error response.
FinalCatchNoCache(r) ==
    /\ pc[r] = "catch"
    /\ res' = [res EXCEPT ![r] =
                 Write(Status([@ EXCEPT !.cacheControl = <<>>], 500), "finalCatch", err[r])]
    /\ pc' = [pc EXCEPT ![r] = "done"]
    /\ UNCHANGED <<query, result, err, invoked, feed, started, inflight, calls>>

\* The catch callback of lines 194-198.
FinalCatch(r) ==
    /\ pc[r] = "catch"
    /\ res' = [res EXCEPT ![r] = Write(Status(@, 500), "finalCatch", err[r])]
    /\ pc' = [pc EXCEPT ![r] = "done"]
    /\ UNCHANGED <<query, result, err, invoked, feed, started, inflight, calls>>

Next ==
    \E r \in Req :
        \/ \E id \in IdParams, format \in FormatParams, q \in ListQueries :
              Receive(r, id, format, q.sort, q.skip, q.limit)
        \/ FindResolve(r)
        \/ \E e \in StoreErrors : FindReject(r, e)
        \/ \E pwas \in Listings : ListResolve(r, pwas)
        \/ \E e \in StoreErrors : ListReject(r, e)
        \/ ThenCsv(r)
        \/ ThenJson(r)
        \/ ThenRss(r)
        \/ \E i \in 1..Len(result[r]), e \in {"null"} \cup RenderErrors, html \in Htmls :
              RenderCallback(r, i, e, html)
        \/ RssSend(r)
        \/ FinalCatch(r)

Spec == Init /\ [][Next]_vars

\* The route handler alone, on every combination of the listing parameters.
NextParams ==
    \E id \in {Absent, "a"}, sort \in SortParams, skip \in NumberParams,
       limit \in NumberParams :
        Receive("r1", id, Absent, sort, skip, limit)

SpecParams == Init /\ [][NextParams]_vars

\* ================================================================= claims
Writers == {"csvWriter", "jsonWriter", "rssWriter"}
Catches == {"lookupCatch", "finalCatch"}

Writes(r) == res[r].writes

\* No callback of the request is pending: nothing more will run for it.
Quiescent(r) == pc[r] \in {"done", "unhandledRejection"}

SingleMode(r) == pc[r] # "idle" /\ Truthy(query[r].id)
ListingMode(r) == pc[r] # "idle" /\ ~Truthy(query[r].id)

\* The store call of the request failed.
StoreFailed(r) == err[r] \in StoreErrors

\* A render of the request was called back with an error.
RenderFailed(r) == err[r] \in RenderErrors

\* A record getDate cannot project.
BadDates(pwa) == pwa.created.nan \/ pwa.updated.nan

\* C1: every request gets exactly one response write: when nothing more can
\* run for a request, its response has been written once, not zero times and
\* not twice.
C1_ExactlyOneWrite ==
    \A r \in Req : Quiescent(r) => Len(Writes(r)) = 1

\* C2: in an rss request, when the render of a record rejects, the request is
\* answered by the 500 handler, once, and no feed is sent.
C2_RenderRejectionAnswered500 ==
    \A r \in Req :
        (RenderFailed(r) /\ Quiescent(r)) =>
            /\ Len(Writes(r)) = 1
            /\ Writes(r)[1].status = 500
            /\ Writes(r)[1].by = "finalCatch"

\* C3: in single-record mode, a failed lookup is answered 404 with the
\* upstream error, and then nothing else happens for the request: no writer is
\* invoked and the 500 handler does not run, whatever the format.
C3_LookupFailureIs404 ==
    \A r \in Req :
        (SingleMode(r) /\ StoreFailed(r)) =>
            /\ Writes(r) = << [status |-> 404, by |-> "lookupCatch", body |-> err[r]] >>
            /\ invoked[r] = <<>>
            /\ pc[r] = "done"

C3_Witness ==
    \E r \in Req :
        /\ SingleMode(r) /\ StoreFailed(r)
        /\ query[r].format = "rss"
        /\ query[r].id = "zz"
        /\ Len(Writes(r)) = 1

\* C4: in listing mode, when the listing fails or the CSV or JSON writer
\* throws on a record, the only write is the 500 of the final catch; and a
\* write with status 200 happens only when the store call, the projection of
\* every record and every render succeeded.
C4_FailureIs500 ==
    \A r \in Req :
        /\ ( /\ ListingMode(r)
             /\ \/ StoreFailed(r)
                \/ /\ invoked[r] \in {<<"csvWriter">>, <<"jsonWriter">>}
                   /\ \E pwa \in Range(result[r]) : BadDates(pwa) )
           => /\ \A i \in 1..Len(Writes(r)) :
                    Writes(r)[i].status = 500 /\ Writes(r)[i].by = "finalCatch"
              /\ Quiescent(r) => Len(Writes(r)) = 1
        /\ \A i \in 1..Len(Writes(r)) :
              Writes(r)[i].status = 200 =>
                 /\ err[r] = "null"
                 /\ Writes(r)[i].by \in Writers
                 /\ Writes(r)[i].by \in {"csvWriter", "jsonWriter"} =>
                       \A pwa \in Range(result[r]) : ~BadDates(pwa)

C4_Witness ==
    \E r \in Req :
        /\ ListingMode(r)
        /\ invoked[r] = <<"csvWriter">>
        /\ Len(result[r]) = 2
        /\ ~BadDates(result[r][1]) /\ BadDates(result[r][2])
        /\ Quiescent(r)
        /\ Writes(r)[1].status = 500

\* The response of the request is one write of a writer.
Succeeded(r) == Len(Writes(r)) = 1 /\ Writes(r)[1].by \in Writers

\* The per-record entries of a write: the CSV rows after the header, the JSON
\* objects, the feed items; an error payload has none.
Entries(w) ==
    CASE w.by = "csvWriter" -> SubSeq(w.body, 2, Len(w.body))
      [] w.by = "jsonWriter" -> w.body
      [] w.by = "rssWriter" -> w.body.items
      [] OTHER -> <<>>

\* The id an entry carries.
EntryId(by, entry) ==
    CASE by = "csvWriter" -> entry[1]
      [] by = "jsonWriter" -> entry.id
      [] by = "rssWriter" -> entry.guid

\* Days since 1970-01-01 of the civil date <<year, month, day>> (Date.UTC).
DaysFromCivil(ymd) ==
    LET y   == ymd[1] - (IF ymd[2] <= 2 THEN 1 ELSE 0)
        era == y \div 400
        yoe == y - era * 400
        mp  == IF ymd[2] > 2 THEN ymd[2] - 3 ELSE ymd[2] + 9
        doy == (153 * mp + 2) \div 5 + ymd[3] - 1
        doe == yoe * 365 + yoe \div 4 - yoe \div 100 + doy
    IN  era * 146097 + doe - 719468

\* ymd is the calendar day the instant t falls on: the day's midnight is at
\* or before t, and the next midnight is after t.
IsDayOf(ymd, t) ==
    /\ ~t.nan
    /\ ymd[2] \in 1..12 /\ ymd[3] \in 1..31
    /\ DaysFromCivil(ymd) * MsPerDay <= t.ms
    /\ t.ms < (DaysFromCivil(ymd) + 1) * MsPerDay

\* C5: the feed that is sent has one item per record of the result set, and
\* the guids of the items are the ids of the records, in the same order.
C5_FeedItemsInInputOrder ==
    \A r \in Req : \A i \in 1..Len(Writes(r)) :
        Writes(r)[i].by = "rssWriter" =>
            LET items == Writes(r)[i].body.items
            IN  /\ Len(items) = Len(result[r])
                /\ \A k \in 1..Len(items) : items[k].guid = result[r][k].id

C5_Witness ==
    \E r \in Req :
        /\ Succeeded(r)
        /\ Writes(r)[1].by = "rssWriter"
        /\ Len(Writes(r)[1].body.items) >= 2
        /\ \E o \in Req \ {r} : pc[o] = "rss"

\* C6: once the lookup or listing has succeeded and the format switch has run,
\* exactly one writer has been invoked: the CSV writer for format 'csv', the
\* RSS writer for 'rss', the JSON writer for any other or no format.  Before
\* that, and after a failed store call, none is.
C6_OneWriterByFormat ==
    \A r \in Req :
        LET expected == IF query[r].format = "csv" THEN "csvWriter"
                        ELSE IF query[r].format = "rss" THEN "rssWriter"
                        ELSE "jsonWriter"
        IN  /\ Len(invoked[r]) <= 1
            /\ invoked[r] # <<>> => (invoked[r][1] = expected /\ ~StoreFailed(r))
            /\ (pc[r] \notin {"idle", "find", "list", "then"} /\ ~StoreFailed(r))
                  => Len(invoked[r]) = 1

C6_Witness ==
    /\ query["r1"].format = "CSV" /\ invoked["r1"] = <<"jsonWriter">>
    /\ query["r2"].format = Absent /\ invoked["r2"] = <<"jsonWriter">>

\* C7: a write of a writer has status 200 and holds an entry for every record
\* of the result set; a write of a catch handler has status 404 or 500 and
\* holds the error; a status 200 write is a writer's; and no catch handler
\* writes after a writer has written.
C7_NoMixedResponse ==
    \A r \in Req : \A i \in 1..Len(Writes(r)) :
        LET w == Writes(r)[i]
        IN  /\ w.by \in Writers =>
                  /\ w.status = 200
                  /\ Len(Entries(w)) = Len(result[r])
                  /\ \A j \in (i + 1)..Len(Writes(r)) : Writes(r)[j].by \notin Catches
            /\ w.by \in Catches =>
                  /\ w.status \in {404, 500}
                  /\ w.body = err[r]
            /\ w.status = 200 => w.by \in Writers

C7_Witness ==
    \E r \in Req :
        /\ invoked[r] = <<"jsonWriter">>
        /\ Len(result[r]) = 2
        /\ ~BadDates(result[r][1]) /\ BadDates(result[r][2])
        /\ pc[r] = "done"
        /\ Len(Writes(r)) = 1 /\ Writes(r)[1].by = "finalCatch"

\* C8: the CSV body is the fixed header row followed by one row per record of
\* the listing, row i + 1 holding the fields of record i; the JSON body is one
\* object per record, object i holding the fields of record i.
C8_RowsFollowListing ==
    \A r \in Req : \A i \in 1..Len(Writes(r)) :
        LET w == Writes(r)[i]
            pwas == result[r]
        IN  /\ w.by = "csvWriter" =>
                  /\ Len(w.body) = Len(pwas) + 1
                  /\ w.body[1] = <<"id", "absoluteStartUrl", "manifestUrl",
                                   "lighthouseScore", "created", "updated">>
                  /\ \A k \in 1..Len(pwas) :
                        /\ Len(w.body[k + 1]) = 6
                        /\ w.body[k + 1][1] = pwas[k].id
                        /\ w.body[k + 1][2] = pwas[k].absoluteStartUrl
                        /\ w.body[k + 1][3] = pwas[k].manifestUrl
                        /\ w.body[k + 1][4] = pwas[k].lighthouseScore
                        /\ IsDayOf(w.body[k + 1][5], pwas[k].created)
                        /\ IsDayOf(w.body[k + 1][6], pwas[k].updated)
            /\ w.by = "jsonWriter" =>
                  /\ Len(w.body) = Len(pwas)
                  /\ \A k \in 1..Len(pwas) :
                        /\ DOMAIN w.body[k] =
                              {"id", "absoluteStartUrl", "manifestUrl", "lighthouseScore",
                               "webPageTest", "pageSpeed", "created", "updated"}
                        /\ w.body[k].id = pwas[k].id
                        /\ w.body[k].absoluteStartUrl = pwas[k].absoluteStartUrl
                        /\ w.body[k].manifestUrl = pwas[k].manifestUrl
                        /\ w.body[k].lighthouseScore = pwas[k].lighthouseScore
                        /\ w.body[k].webPageTest = pwas[k].webPageTest
                        /\ w.body[k].pageSpeed = pwas[k].pageSpeed

C8_Witness ==
    /\ ListingMode("r1") /\ Succeeded("r1") /\ Writes("r1")[1].by = "csvWriter"
    /\ Len(Writes("r1")[1].body) = 3
    /\ ListingMode("r2") /\ Succeeded("r2") /\ Writes("r2")[1].by = "jsonWriter"
    /\ Len(Writes("r2")[1].body) = 2

\* C9: the created and updated values of every CSV row and JSON object are the
\* calendar days the record's timestamps fall on, and the date of every feed
\* item is the record's created timestamp itself, time of day included.
C9_DatesByDayFeedRaw ==
    \A r \in Req : \A i \in 1..Len(Writes(r)) :
        LET w == Writes(r)[i]
            pwas == result[r]
        IN  \A k \in 1..Len(Entries(w)) :
                LET entry == Entries(w)[k]
                IN  /\ w.by = "csvWriter" =>
                          /\ IsDayOf(entry[5], pwas[k].created)
                          /\ IsDayOf(entry[6], pwas[k].updated)
                    /\ w.by = "jsonWriter" =>
                          /\ IsDayOf(entry.created, pwas[k].created)
                          /\ IsDayOf(entry.updated, pwas[k].updated)
                    /\ w.by = "rssWriter" => entry.date = pwas[k].created

C9_Witness ==
    /\ Succeeded("r1") /\ Writes("r1")[1].by = "jsonWriter"
    /\ \E k \in 1..Len(result["r1"]) :
          /\ result["r1"][k].created.ms < 0
          /\ Writes("r1")[1].body[k].created = <<1969, 12, 31>>
    /\ Succeeded("r2") /\ Writes("r2")[1].by = "rssWriter"
    /\ \E k \in 1..Len(result["r2"]) :
          /\ ~result["r2"][k].created.nan
          /\ result["r2"][k].created.ms % MsPerDay # 0
          /\ Writes("r2")[1].body.items[k].date.ms % MsPerDay # 0

\* The requests the single-record claim compares: s looked a record up, l
\* listed, both were answered by the same writer.
SingleAndListing(s, l) ==
    /\ SingleMode(s) /\ Succeeded(s)
    /\ ListingMode(l) /\ Succeeded(l)
    /\ Writes(s)[1].by = Writes(l)[1].by

\* C10 as stated: the single-record response holds exactly one entry, and it
\* is identical to the entry with that id in a listing response of the same
\* format.
C10_SingleEqualsFilteredList ==
    \A s \in Req, l \in Req :
        SingleAndListing(s, l) =>
            LET by == Writes(s)[1].by
                one == Entries(Writes(s)[1])
                all == Entries(Writes(l)[1])
            IN  /\ Len(one) = 1
                /\ \A j \in 1..Len(all) :
                      EntryId(by, all[j]) = query[s].id => all[j] = one[1]

\* An entry without the part the template engine produced for the request.
WithoutFragment(by, entry) ==
    IF by = "rssWriter" THEN [entry EXCEPT !.description = ""] ELSE entry

\* C10, amended: the single-record response holds exactly one entry, and it is
\* identical to the entry with that id in a listing response of the same
\* format, except for the description of a feed item, which is the fragment
\* rendered for the request at hand.
C10_SingleEqualsFilteredListButFragment ==
    \A s \in Req, l \in Req :
        SingleAndListing(s, l) =>
            LET by == Writes(s)[1].by
                one == Entries(Writes(s)[1])
                all == Entries(Writes(l)[1])
            IN  /\ Len(one) = 1
                /\ EntryId(by, one[1]) = query[s].id
                /\ \A j \in 1..Len(all) :
                      EntryId(by, all[j]) = query[s].id =>
                         WithoutFragment(by, all[j]) = WithoutFragment(by, one[1])

C10_Witness ==
    /\ SingleAndListing("r1", "r2")
    /\ Writes("r1")[1].by = "rssWriter"
    /\ query["r1"].id = "a"
    /\ Len(result["r2"]) = 2 /\ result["r2"][2].id = "a"
    /\ Writes("r1")[1].body.items[1].description
          # Writes("r2")[1].body.items[2].description

\* The header value the claims speak of.
PublicOneHour == <<"public, max-age=", 3600>>

\* The request got a write in this step.
Written(r) == Len(res'[r].writes) > Len(res[r].writes)

\* The write the request got in this step.
NewWrite(r) == res'[r].writes[Len(res'[r].writes)]

\* C11: the Cache-Control header is public, max-age=3600 when the format
\* switch is about to run, and it is on the response before and after every
\* write of status 200, whichever writer wrote and in either mode.
C11_SuccessCarriesCacheControl ==
    /\ [](\A r \in Req : pc[r] = "then" => res[r].cacheControl = PublicOneHour)
    /\ [][\A r \in Req :
            (Written(r) /\ NewWrite(r).status = 200) =>
               /\ res[r].cacheControl = PublicOneHour
               /\ res'[r].cacheControl = PublicOneHour]_vars

C11_Witness ==
    /\ SingleMode("r1") /\ Succeeded("r1") /\ Writes("r1")[1].by = "csvWriter"
    /\ ListingMode("r2") /\ Succeeded("r2") /\ Writes("r2")[1].by = "rssWriter"
    /\ Writes("r1")[1].status = 200 /\ Writes("r2")[1].status = 200
    /\ res["r1"].cacheControl # <<>> /\ res["r2"].cacheControl # <<>>

\* C12: at every moment at most one render of a request is awaited; it is
\* the render of the record started last, and the items of all records before
\* it have been appended; a step starts at most one render, that of the next
\* record in input order.
C12_OneRenderAtATime ==
    /\ [](\A r \in Req :
            /\ Cardinality(inflight[r]) <= 1
            /\ \A i \in inflight[r] : i = started[r] /\ Len(feed[r]) = i - 1)
    /\ [][\A r \in Req :
            /\ inflight'[r] \ inflight[r] \subseteq {started[r] + 1}
            /\ (inflight'[r] \ inflight[r] # {}) =>
                  (inflight'[r] \cap inflight[r] = {} /\ Len(feed'[r]) = started[r])]_vars

C12_Witness ==
    \E r \in Req :
        /\ pc[r] = "rss"
        /\ inflight[r] = {2}
        /\ Len(feed[r]) = 1
        /\ Len(result[r]) = 2

\* C13: while a render of an rss request is awaited or still to be started,
\* nothing has been written; what is written is a single write of status 200
\* holding the feed with the item of every record, with Content-Type
\* application/rss+xml.
C13_FeedSentAfterAllRenders ==
    \A r \in Req :
        invoked[r] = <<"rssWriter">> =>
            /\ (inflight[r] # {} \/ started[r] < Len(result[r])) => Writes(r) = <<>>
            /\ pc[r] \in {"rss", "send"} => Writes(r) = <<>>
            /\ Writes(r) # <<>> =>
                  /\ Len(Writes(r)) = 1
                  /\ Writes(r)[1].status = 200
                  /\ Writes(r)[1].by = "rssWriter"
                  /\ Len(Writes(r)[1].body.items) = Len(result[r])
                  /\ Writes(r)[1].body.items = feed[r]
                  /\ res[r].contentType = "application/rss+xml"

C13_Witness ==
    /\ invoked["r1"] = <<"rssWriter">> /\ pc["r1"] = "rss"
    /\ Len(feed["r1"]) = 1 /\ Len(result["r1"]) = 2 /\ Writes("r1") = <<>>
    /\ invoked["r2"] = <<"rssWriter">> /\ pc["r2"] = "done"
    /\ Len(result["r2"]) = 2 /\ Len(Writes("r2")) = 1

\* C14: while a render of a request is awaited, the request has no write and
\* no later render has been started; and as long as that render stays
\* awaited, no step writes the response, starts a render, appends an item or
\* moves the request on: only the callback of that render does.
C14_StalledRenderStallsResponse ==
    /\ [](\A r \in Req :
            inflight[r] # {} =>
               /\ Writes(r) = <<>>
               /\ \A i \in inflight[r] : started[r] <= i)
    /\ [][\A r \in Req :
            (inflight[r] # {} /\ inflight[r] \subseteq inflight'[r]) =>
               /\ res'[r] = res[r]
               /\ started'[r] = started[r]
               /\ inflight'[r] = inflight[r]
               /\ feed'[r] = feed[r]
               /\ pc'[r] = pc[r]]_vars

C14_Witness ==
    /\ pc["r1"] = "rss" /\ inflight["r1"] = {1} /\ Len(result["r1"]) = 2
    /\ Writes("r1") = <<>>
    /\ pc["r2"] = "done" /\ Len(Writes("r2")) = 1

\* C18: a request never has more than one write, and once it has one, no
\* later step of the request writes again or changes what was written.
C18_AtMostOneWrite ==
    /\ [](\A r \in Req : Len(Writes(r)) <= 1)
    /\ [][\A r \in Req : Writes(r) # <<>> => res'[r].writes = res[r].writes]_vars

C18_Witness ==
    /\ pc["r1"] = "done" /\ Len(Writes("r1")) = 1 /\ Writes("r1")[1].status = 404
    /\ pc["r2"] = "done" /\ Len(Writes("r2")) = 1 /\ Writes("r2")[1].status = 500

\* C19: from the moment the handler has run, so whenever the store call is
\* pending or has answered, the Cache-Control header is public, max-age=3600;
\* no step takes it off; and it is on the response at every write, those of
\* status 404 and 500 included.
C19_EveryResponseCarriesCacheControl ==
    /\ [](\A r \in Req : pc[r] # "idle" => res[r].cacheControl = PublicOneHour)
    /\ [][\A r \in Req :
            /\ res[r].cacheControl = PublicOneHour => res'[r].cacheControl = PublicOneHour
            /\ Written(r) =>
                  /\ res[r].cacheControl = PublicOneHour
                  /\ res'[r].cacheControl = PublicOneHour]_vars

C19_Witness ==
    /\ Len(Writes("r1")) = 1 /\ Writes("r1")[1].status = 404
    /\ res["r1"].cacheControl # <<>>
    /\ Len(Writes("r2")) = 1 /\ Writes("r2")[1].status = 500
    /\ res["r2"].cacheControl # <<>>
    /\ Writes("r2")[1].by = "finalCatch"

\* The positions of the request's calls of the given functions.
CallsOf(r, fns) == {i \in DOMAIN calls[r] : calls[r][i].fn \in fns}

\* C15: a request that has been received has called the store exactly once,
\* find when an id was given and list otherwise; no record's render has been
\* called twice; and from the step in which a lookup, a listing, a projection
\* or a render fails, the request makes no further call.
C15_NoRetry ==
    /\ [](\A r \in Req :
            /\ pc[r] = "idle" => calls[r] = <<>>
            /\ pc[r] # "idle" =>
                  /\ Cardinality(CallsOf(r, {"find", "list"})) = 1
                  /\ calls[r][1].fn = (IF query[r].id \in {Absent, ""} THEN "list" ELSE "find")
                  /\ \A i \in CallsOf(r, {"render"}), j \in CallsOf(r, {"render"}) :
                        i # j => calls[r][i].arg # calls[r][j].arg)
    /\ [][\A r \in Req : err'[r] # "null" => calls'[r] = calls[r]]_vars

C15_Witness ==
    /\ pc["r1"] = "done" /\ err["r1"] \in StoreErrors
    /\ Len(calls["r1"]) = 1 /\ calls["r1"][1].fn = "find"
    /\ pc["r2"] = "unhandledRejection"
    /\ Len(calls["r2"]) = 3 /\ calls["r2"][1].fn = "list"
    /\ calls["r2"][2].fn = "render" /\ calls["r2"][3].fn = "render"

\* The integer each parameter value of NumberParams starts with, written out
\* value by value; NaN where there is none.
IntegerOf(param) ==
    CASE param = Param(<<"0">>) -> Num(0)
      [] param = Param(<<"7">>) -> Num(7)
      [] param = Param(<<"2", "5">>) -> Num(25)
      [] param = Param(<<"1", "2", "p", "x">>) -> Num(12)
      [] param = Param(<<"-", "3">>) -> Num(0 - 3)
      [] param = Param(<<" ", "4">>) -> Num(4)
      [] OTHER -> NotANumber

\* The request is a listing whose store call has been made.
Listed(r) == pc[r] = "list" /\ calls[r] # <<>> /\ calls[r][1].fn = "list"

\* C16 as stated: the listing is called with the sort parameter, or "newest"
\* when it is absent; with the integer value of limit, or 100 exactly when
\* limit is absent or not numeric; with the integer value of skip, or no
\* number when skip is absent or not numeric.
C16_ListArgsAsStated ==
    \A r \in Req :
        Listed(r) =>
            LET args == calls[r][1].arg
            IN  /\ args.sort = (IF query[r].sort = Absent THEN "newest" ELSE query[r].sort)
                /\ args.limit = (IF IntegerOf(query[r].limit).nan
                                 THEN Num(100)
                                 ELSE IntegerOf(query[r].limit))
                /\ args.skip = IntegerOf(query[r].skip)

\* C16, amended: the listing is called with the sort parameter, or "newest"
\* when it is absent or empty; with the integer value of limit, or 100 when
\* limit is absent, not numeric or zero; with the integer value of skip, or
\* no number when skip is absent or not numeric.
C16_ListArgsFalsyDefaults ==
    \A r \in Req :
        Listed(r) =>
            LET args == calls[r][1].arg
            IN  /\ args.sort = (IF query[r].sort \in {Absent, ""}
                                THEN "newest"
                                ELSE query[r].sort)
                /\ args.limit = (IF IntegerOf(query[r].limit).nan
                                    \/ IntegerOf(query[r].limit).n = 0
                                 THEN Num(100)
                                 ELSE IntegerOf(query[r].limit))
                /\ args.skip = IntegerOf(query[r].skip)

C16_Witness ==
    /\ Listed("r1")
    /\ query["r1"].sort = "" /\ calls["r1"][1].arg.sort = "newest"
    /\ query["r1"].limit = Param(<<"0">>) /\ calls["r1"][1].arg.limit = Num(100)
    /\ query["r1"].skip = Param(<<"1", "2", "p", "x">>)
    /\ calls["r1"][1].arg.skip = Num(12)

\* Everything the model holds for one request.
RequestState(r) ==
    <<pc[r], query[r], result[r], res[r], err[r], invoked[r], feed[r], started[r],
      inflight[r], calls[r]>>

\* C17: with two requests in flight and their steps interleaved, every item
\* of a request's feed, while it is built and when it is sent, is the item of
\* the record at the same place of that request's own result set; every entry
\* of a CSV or JSON body carries the id of the request's own record at that
\* place; and no step changes anything of two requests at once.
C17_RequestsDoNotInterfere ==
    /\ [](\A r \in Req :
            /\ Len(feed[r]) <= Len(result[r])
            /\ \A k \in 1..Len(feed[r]) :
                  /\ feed[r][k].guid = result[r][k].id
                  /\ feed[r][k].title = result[r][k].displayName
                  /\ feed[r][k].date = result[r][k].created
            /\ \A i \in 1..Len(Writes(r)) :
                  LET w == Writes(r)[i]
                  IN  w.by \in Writers =>
                         /\ Len(Entries(w)) = Len(result[r])
                         /\ \A k \in 1..Len(Entries(w)) :
                               EntryId(w.by, Entries(w)[k]) = result[r][k].id)
    /\ [][\A r \in Req, o \in Req :
            r # o => (RequestState(r)' = RequestState(r) \/ RequestState(o)' = RequestState(o))]_vars

C17_Witness ==
    /\ pc["r1"] = "rss" /\ pc["r2"] = "rss"
    /\ Len(result["r1"]) = 2 /\ Len(result["r2"]) = 2
    /\ result["r1"][1].id = "a" /\ result["r2"][1].id = "b"
    /\ Len(feed["r1"]) = 1 /\ Len(feed["r2"]) = 1
    /\ inflight["r1"] = {2} /\ inflight["r2"] = {2}

====
